---- MODULE Spec2Model ----
(***************************************************************************)
(* Model of the collateralized-borrowing simulator (lib/bbd-simulator.ts): *)
(* runBBDSimulation with the price paths it consumes.                      *)
(*                                                                         *)
(* Numbers.  The program computes in IEEE doubles.  The model computes in  *)
(* exact integers and draws the inputs from sets on which every amount of  *)
(* money the program computes is an integer: prices are multiples of 10,   *)
(* LTV percentages are multiples of 10, and the APR is 0 or 1200 so that   *)
(* the monthly rate apr/100/12 is 0 or 1.  A ratio (the LTV) is kept as    *)
(* the pair num/den and compared by cross-multiplication.                  *)
(*                                                                         *)
(* Dates are [y, m, d] records with m the 0-based UTC month, as            *)
(* getUTCMonth() returns it.                                               *)
(***************************************************************************)
EXTENDS Integers, Naturals, Sequences, FiniteSets, TLC

\* ---------------------------------------------------------------- bounds
MaxYears == 2
MaxBtc == 1
MaxSpend == 1
HistMonths == 13
TodayOffset == 11

\* `number | null` fields hold NULL for null
NULL == -1

\* ------------------------------------------------------------ input sets
Prices == {0, 10, 100}
AprChoices == {0, 1200}
LtvPercentChoices == {50}
StartingLtvChoices == {NULL, 20}
StartDate == [y |-> 2025, m |-> 0, d |-> 1]

\* a spending step-up as the controls build it: {startYear, monthlySpendingUsd}
SpendingStepChoices == { << >>, << [startYear |-> 2, monthlySpendingUsd |-> 3] >> }

BBDSimulatorConfig ==
    [ btcHeld : 0..MaxBtc,
      monthlySpendingUsd : 0..MaxSpend,
      interestAprPercent : AprChoices,
      liquidationLtvPercent : LtvPercentChoices,
      startingLtvPercent : StartingLtvChoices,
      borrowMonthly : BOOLEAN,
      borrowFrequency : {"monthly", "yearly"},
      interestMode : {"capitalize", "pay_monthly"},
      projectionYears : {0, MaxYears},
      scenario : {"fair"},
      spendingSteps : SpendingStepChoices ]

\* fits with B = 0 and sigma = 0: the model price is A at every age
PowerLawFit == [ A : Prices, B : {0}, sigma : {0} ]

\* ------------------------------------------------------------------ dates
\* new Date(Date.UTC(y, m + months, 1)): the month overflows into the year
DateUTC_noRollOver(y, m, d) == [y |-> y, m |-> m % 12, d |-> d]
DateUTC(y, m, d) == [y |-> y + (m \div 12), m |-> m % 12, d |-> d]

MonthKey(date) == date.y * 12 + date.m

\* date <= todayMonth on two dates of the same day-of-month granularity
DateLeq(a, b) ==
    \/ MonthKey(a) < MonthKey(b)
    \/ MonthKey(a) = MonthKey(b) /\ a.d <= b.d

\* mid-month daily points for the first n months from start
HistoricalSeries(start, n, p) ==
    [k \in 1..n |-> [date |-> [y |-> start.y + ((start.m + k - 1) \div 12),
                               m |-> (start.m + k - 1) % 12,
                               d |-> 15],
                     price |-> p]]

HistoricalChoices == { << >> } \cup { HistoricalSeries(StartDate, HistMonths, p) : p \in Prices }

\* -------------------------------------------------------- price paths
getScenarioPrice(date, fit, scenario) == fit.A

\* mutant of generatePricePath: a loop that runs one month too far
generatePricePath_extraMonth(startDate, projectionYears, fit, scenario) ==
    LET totalMonths == projectionYears * 12 IN
    [k \in 1..(totalMonths + 2) |->
        LET date == DateUTC(startDate.y, startDate.m + (k - 1), 1) IN
        [date |-> date, price |-> getScenarioPrice(date, fit, scenario), isProjection |-> TRUE]]

generatePricePath(startDate, projectionYears, fit, scenario) ==
    LET totalMonths == projectionYears * 12 IN
    [k \in 1..(totalMonths + 1) |->
        LET date == DateUTC(startDate.y, startDate.m + (k - 1), 1) IN
        [date |-> date, price |-> getScenarioPrice(date, fit, scenario), isProjection |-> TRUE]]

\* historicalMap.get(key): the price of the last point of that month, NULL
\* (undefined) when the month has no point
historicalMapGet_firstWins(historicalData, key) ==
    LET idx == {j \in 1..Len(historicalData) : MonthKey(historicalData[j].date) = key} IN
    IF idx = {} THEN NULL
    ELSE historicalData[CHOOSE j \in idx : \A j2 \in idx : j2 >= j].price

historicalMapGet(historicalData, key) ==
    LET idx == {j \in 1..Len(historicalData) : MonthKey(historicalData[j].date) = key} IN
    IF idx = {} THEN NULL
    ELSE historicalData[CHOOSE j \in idx : \A j2 \in idx : j2 <= j].price

generateMixedPricePath(startDate, projectionYears, fit, scenario, historicalData, today) ==
    LET totalMonths == projectionYears * 12
        todayMonth == DateUTC(today.y, today.m, 1)
    IN
    [k \in 1..(totalMonths + 1) |->
        LET date == DateUTC(startDate.y, startDate.m + (k - 1), 1)
            isBeforeOrToday == DateLeq(date, todayMonth)
            historicalPrice == historicalMapGet(historicalData, MonthKey(date))
        IN
        IF isBeforeOrToday /\ historicalPrice # NULL
        THEN [date |-> date, price |-> historicalPrice, isProjection |-> FALSE]
        ELSE [date |-> date, price |-> getScenarioPrice(date, fit, scenario), isProjection |-> TRUE]]

\* ------------------------------------------------- runBBDSimulation
VARIABLES
    config,             \* argument: BBDSimulatorConfig
    fit,                \* argument: PowerLawFit
    startDate,          \* argument: Date
    historicalData,     \* argument: HistoricalPricePoint[] (<< >> when omitted)
    today,              \* new Date() read by generateMixedPricePath
    pc,                 \* "start", "loop", "summary", "done"
    pricePath,
    i,                  \* loop index
    loanBalance,
    totalInterestPaid,
    totalBorrowed,
    isLiquidated,
    liquidationMonth,
    steps,
    summary,
    data,               \* argument of fitPowerLaw: PriceDataPoint[]
    age,                \* argument of powerLawPrice: daysSinceGenesis
    result,             \* what the library call returned
    args,               \* arguments of the other library functions
    cache,              \* the price cache file of the API route
    requests            \* the API route's calls of getRecentData

vars == << config, fit, startDate, historicalData, today, pc, pricePath, i,
           loanBalance, totalInterestPaid, totalBorrowed, isLiquidated,
           liquidationMonth, steps, summary, data, age, result, args, cache,
           requests >>

inputs == << config, fit, startDate, historicalData, today, args, cache, requests >>

\* the variables of a call into lib/powerlaw.ts, and their value while no
\* such call is made
lib == << data, age, result >>

NoCall ==
    /\ data = << >>
    /\ age = 0
    /\ result = NULL
    /\ args = NULL
    /\ cache = NULL
    /\ requests = << >>

\* a ratio of two amounts
Ratio(n, d) == [num |-> n, den |-> d]

\* r >= p / q, for positive denominators
RatioGeq(r, p, q) == r.num * q >= p * r.den

\* mutant of monthlyInterestRate: no interest at all
monthlyInterestRate_zero(c) == 0

monthlyInterestRate(c) == c.interestAprPercent \div 1200

\* mutant of InitialLoan: the whole collateral value lent at the start
InitialLoan_fullCollateral(c, initialPrice) ==
    IF ~c.borrowMonthly /\ c.startingLtvPercent # NULL
    THEN c.btcHeld * initialPrice
    ELSE 0

\* the initial loan of starting-LTV mode
InitialLoan(c, initialPrice) ==
    IF ~c.borrowMonthly /\ c.startingLtvPercent # NULL
    THEN ((c.btcHeld * initialPrice) * c.startingLtvPercent) \div 100
    ELSE 0

\* mutants of BorrowAmount: borrowing in month 0; a yearly cadence that
\* borrows every month; borrowing whatever the mode
BorrowAmount_month0(c, idx) ==
    IF c.borrowMonthly
    THEN IF c.borrowFrequency = "monthly"
         THEN c.monthlySpendingUsd
         ELSE IF c.borrowFrequency = "yearly" /\ idx % 12 = 0
              THEN c.monthlySpendingUsd * 12
              ELSE 0
    ELSE 0

BorrowAmount_yearlyEveryMonth(c, idx) ==
    IF c.borrowMonthly /\ idx > 0
    THEN IF c.borrowFrequency = "monthly"
         THEN c.monthlySpendingUsd
         ELSE c.monthlySpendingUsd * 12
    ELSE 0

BorrowAmount_anyMode(c, idx) ==
    IF idx > 0
    THEN IF c.borrowFrequency = "monthly"
         THEN c.monthlySpendingUsd
         ELSE IF c.borrowFrequency = "yearly" /\ idx % 12 = 0
              THEN c.monthlySpendingUsd * 12
              ELSE 0
    ELSE 0

\* the amount borrowed in month idx
BorrowAmount(c, idx) ==
    IF c.borrowMonthly /\ idx > 0
    THEN IF c.borrowFrequency = "monthly"
         THEN c.monthlySpendingUsd
         ELSE IF c.borrowFrequency = "yearly" /\ idx % 12 = 0
              THEN c.monthlySpendingUsd * 12
              ELSE 0
    ELSE 0

\* mutant of InterestBase: interest computed before the month's borrowing
InterestBase_beforeBorrow(balance, borrowed) == balance

\* the balance the month's interest is computed on: loanBalance as line 805
\* reads it, after the month's borrowing was added
InterestBase(balance, borrowed) == balance + borrowed

\* the month's interest
InterestAmount(c, idx, base) ==
    IF idx > 0 THEN base * monthlyInterestRate(c) ELSE 0

\* mutants of IsCapitalize: interest never, or always, added to the balance
IsCapitalize_never(c) == FALSE

IsCapitalize_always(c) == TRUE

IsCapitalize(c) == c.interestMode = "capitalize"

\* mutant of CalcLtv: the division without its guard
CalcLtv_unguarded(balance, collateralValue) == Ratio(balance, collateralValue)

\* mutant of CalcLtv: a loan without collateral counted as fully drawn
CalcLtv_fullWhenNoCollateral(balance, collateralValue) ==
    IF collateralValue > 0 THEN Ratio(balance, collateralValue) ELSE Ratio(1, 1)

CalcLtv(balance, collateralValue) ==
    IF collateralValue > 0 THEN Ratio(balance, collateralValue) ELSE Ratio(0, 1)

\* mutant of LiquidationReached: a strict comparison
LiquidationReached_strict(ltv, c, liquidated) ==
    ltv.num * 100 > c.liquidationLtvPercent * ltv.den /\ ~liquidated

LiquidationReached(ltv, c, liquidated) ==
    RatioGeq(ltv, c.liquidationLtvPercent, 100) /\ ~liquidated

\* mutant of StopAfterLiquidation: the loop without its break
StopAfterLiquidation_never(liquidated) == FALSE

StopAfterLiquidation(liquidated) == liquidated

\* Inputs on which the balance stays in the range of exact arithmetic: a
\* balance that doubles every month is only run against collateral that is
\* positive in every month, where it is liquidated before it leaves the range.
Doubling(c) ==
    /\ c.interestMode = "capitalize"
    /\ c.interestAprPercent > 0
    /\ c.borrowMonthly
    /\ c.borrowFrequency = "monthly"
    /\ c.monthlySpendingUsd > 0

InRange(c, f, h) ==
    Doubling(c) =>
        /\ c.btcHeld > 0
        /\ f.A > 0
        /\ \A k \in 1..Len(h) : h[k].price > 0

\* step-ups are given only where the configuration borrows for spending
StepUpsWhereBorrowing(c) == c.spendingSteps # << >> => c.borrowMonthly

Init ==
    /\ config \in BBDSimulatorConfig
    /\ fit \in PowerLawFit
    /\ startDate = StartDate
    /\ historicalData \in HistoricalChoices
    /\ today = DateUTC(StartDate.y, StartDate.m + TodayOffset, 20)
    /\ InRange(config, fit, historicalData)
    /\ StepUpsWhereBorrowing(config)
    /\ pc = "start"
    /\ pricePath = << >>
    /\ i = 0
    /\ loanBalance = 0
    /\ totalInterestPaid = 0
    /\ totalBorrowed = 0
    /\ isLiquidated = FALSE
    /\ liquidationMonth = NULL
    /\ steps = << >>
    /\ summary = NULL
    /\ NoCall

\* lines 750-772: the price path and the initial loan
Begin ==
    /\ pc = "start"
    /\ LET path == IF Len(historicalData) > 0
                   THEN generateMixedPricePath(startDate, config.projectionYears, fit,
                                               config.scenario, historicalData, today)
                   ELSE generatePricePath(startDate, config.projectionYears, fit, config.scenario)
       IN /\ pricePath' = path
          /\ loanBalance' = InitialLoan(config, path[1].price)
          /\ totalBorrowed' = InitialLoan(config, path[1].price)
    /\ i' = 0
    /\ totalInterestPaid' = 0
    /\ isLiquidated' = FALSE
    /\ liquidationMonth' = NULL
    /\ steps' = << >>
    /\ pc' = "loop"
    /\ UNCHANGED << inputs, lib, summary >>

\* lines 774-846: one iteration of the month loop
LoopIteration ==
    /\ pc = "loop"
    /\ i < Len(pricePath)
    /\ LET point == pricePath[i + 1]
           collateralValue == config.btcHeld * point.price
           borrowedThisMonth == BorrowAmount(config, i)
           interestAmount == InterestAmount(config, i, InterestBase(loanBalance, borrowedThisMonth))
           balance == loanBalance + borrowedThisMonth
                        + (IF IsCapitalize(config) THEN interestAmount ELSE 0)
           interestPaidThisMonth == IF IsCapitalize(config) THEN 0 ELSE interestAmount
           ltv == CalcLtv(balance, collateralValue)
           netEquity == collateralValue - balance
           hit == LiquidationReached(ltv, config, isLiquidated)
           liquidated == isLiquidated \/ hit
       IN /\ loanBalance' = balance
          /\ totalBorrowed' = totalBorrowed + borrowedThisMonth
          /\ totalInterestPaid' = totalInterestPaid + interestPaidThisMonth
          /\ isLiquidated' = liquidated
          /\ liquidationMonth' = IF hit THEN i ELSE liquidationMonth
          /\ steps' = Append(steps,
                [ month |-> i,
                  year |-> i \div 12,
                  date |-> point.date,
                  btcPrice |-> point.price,
                  collateralValue |-> collateralValue,
                  loanBalance |-> balance,
                  ltv |-> ltv,
                  netEquity |-> netEquity,
                  interestPaidThisMonth |-> interestPaidThisMonth,
                  borrowedThisMonth |-> borrowedThisMonth,
                  isLiquidated |-> liquidated,
                  isProjection |-> point.isProjection ])
          /\ IF StopAfterLiquidation(liquidated)
             THEN /\ pc' = "summary"
                  /\ i' = i
             ELSE /\ i' = i + 1
                  /\ pc' = IF i + 1 < Len(pricePath) THEN "loop" ELSE "summary"
    /\ UNCHANGED << inputs, lib, pricePath, summary >>

\* a `number | null` field of the summary
Null == [isNull |-> TRUE]

Value(v) == [isNull |-> FALSE, value |-> v]

\* mutant of FinalValue: the last step's figure reported after a liquidation
FinalValue_kept(liquidated, v) == Value(v)

\* isLiquidated ? null : lastStep.<field>
FinalValue(liquidated, v) == IF liquidated THEN Null ELSE Value(v)

\* lines 848-868: the summary and the return
Summarize ==
    /\ pc = "summary"
    /\ LET firstStep == steps[1]
           lastStep == steps[Len(steps)]
       IN summary' =
            [ initialCollateralValue |-> firstStep.collateralValue,
              finalCollateralValue |-> FinalValue(isLiquidated, lastStep.collateralValue),
              initialLoanBalance |-> firstStep.loanBalance,
              finalLoanBalance |-> FinalValue(isLiquidated, lastStep.loanBalance),
              initialLtv |-> firstStep.ltv,
              finalLtv |-> FinalValue(isLiquidated, lastStep.ltv),
              initialNetEquity |-> firstStep.netEquity,
              finalNetEquity |-> FinalValue(isLiquidated, lastStep.netEquity),
              totalInterestPaid |-> totalInterestPaid,
              totalBorrowed |-> totalBorrowed,
              isLiquidated |-> isLiquidated,
              liquidationMonth |-> liquidationMonth,
              monthsUntilLiquidation |-> liquidationMonth ]
    /\ pc' = "done"
    /\ UNCHANGED << inputs, lib, pricePath, i, loanBalance, totalInterestPaid, totalBorrowed,
                    isLiquidated, liquidationMonth, steps >>

Next == Begin \/ LoopIteration \/ Summarize

Spec == Init /\ [][Next]_vars

\* the call runs to its return: a synchronous function is never suspended
FairSpec == Spec /\ WF_vars(Next)

TypeOK ==
    /\ pc \in {"start", "loop", "summary", "done"}
    /\ i \in 0..(MaxYears * 12 + 1)
    /\ Len(steps) <= MaxYears * 12 + 1

\* ------------------------------------------------------------ helpers
RECURSIVE SumBorrowed(_, _)
SumBorrowed(ss, k) ==
    IF k = 0 THEN 0 ELSE ss[k].borrowedThisMonth + SumBorrowed(ss, k - 1)

RECURSIVE SumInterestPaid(_, _)
SumInterestPaid(ss, k) ==
    IF k = 0 THEN 0 ELSE ss[k].interestPaidThisMonth + SumInterestPaid(ss, k - 1)

Done == pc = "done"

\* the step's LTV is at or above the liquidation threshold
AtThreshold(s) == s.ltv.num * 100 >= config.liquidationLtvPercent * s.ltv.den

RecurringMode == config.borrowMonthly
StartingLtvMode == ~config.borrowMonthly /\ config.startingLtvPercent # NULL

\* ------------------------------------------------------------------ C1
\* C1: at most one step is flagged liquidated and it is the last step of
\* the sequence; no step is appended after a liquidated one.
C1_LiquidatedStepIsLast ==
    /\ \A k \in 1..Len(steps) : steps[k].isLiquidated => k = Len(steps)
    /\ Cardinality({k \in 1..Len(steps) : steps[k].isLiquidated}) <= 1

C1_Witness ==
    /\ Done
    /\ Len(steps) > 2
    /\ Len(steps) < Len(pricePath)
    /\ steps[Len(steps)].isLiquidated

\* ------------------------------------------------------------------ C2
\* C2: a step is flagged liquidated exactly when its LTV >= the liquidation
\* threshold (inclusive); every step before the last is strictly below it,
\* and summary.liquidationMonth is the first month at the threshold.
C2_LiquidatedIffAtThreshold ==
    /\ \A k \in 1..Len(steps) : steps[k].isLiquidated <=> AtThreshold(steps[k])
    /\ \A k \in 1..(Len(steps) - 1) : ~AtThreshold(steps[k])
    /\ Done =>
         LET hits == {k \in 1..Len(steps) : AtThreshold(steps[k])} IN
         IF hits = {} THEN summary.liquidationMonth = NULL
         ELSE summary.liquidationMonth = (CHOOSE k \in hits : \A k2 \in hits : k <= k2) - 1

\* a run liquidated with its LTV exactly at the threshold
C2_Witness ==
    /\ Done
    /\ Len(steps) > 1
    /\ steps[Len(steps)].isLiquidated
    /\ steps[Len(steps)].ltv.num * 100 = config.liquidationLtvPercent * steps[Len(steps)].ltv.den
    /\ summary.liquidationMonth = Len(steps) - 1

\* ------------------------------------------------------------------ C3
\* C3: step 0 has borrowedThisMonth = 0, interestPaidThisMonth = 0 and the
\* initial balance as its loanBalance (0 in recurring-borrow mode), whatever
\* the cadence, interest mode and rate.
C3_MonthZeroUntouched ==
    Len(steps) >= 1 =>
        /\ steps[1].borrowedThisMonth = 0
        /\ steps[1].interestPaidThisMonth = 0
        /\ RecurringMode => steps[1].loanBalance = 0
        /\ StartingLtvMode =>
             steps[1].loanBalance * 100
               = config.btcHeld * pricePath[1].price * config.startingLtvPercent
        /\ (~RecurringMode /\ ~StartingLtvMode) => steps[1].loanBalance = 0

C3_Witness ==
    /\ Len(steps) >= 2
    /\ RecurringMode
    /\ config.borrowFrequency = "monthly"
    /\ config.monthlySpendingUsd > 0
    /\ config.interestAprPercent > 0
    /\ steps[1].loanBalance = 0
    /\ steps[2].loanBalance > 0

\* ------------------------------------------------------------------ C4
MonthlyCapitalizing ==
    /\ RecurringMode
    /\ config.borrowFrequency = "monthly"
    /\ config.interestMode = "capitalize"
    /\ config.interestAprPercent > 0
    /\ config.monthlySpendingUsd > 0

InitialBalance ==
    IF StartingLtvMode
    THEN (config.btcHeld * pricePath[1].price * config.startingLtvPercent) \div 100
    ELSE 0

\* C6: in pay_monthly mode interest never changes the balance: every step's
\* loanBalance is the initial balance plus the borrowing so far (2 x spending
\* at month 2 with monthly cadence); summary.totalInterestPaid is the sum of
\* interestPaidThisMonth, positive when the rate is positive and some month
\* i > 0 has a positive balance.
C6_PayMonthlyKeepsBalance ==
    config.interestMode = "pay_monthly" =>
        /\ \A k \in 1..Len(steps) :
             steps[k].loanBalance = InitialBalance + SumBorrowed(steps, k)
        /\ (RecurringMode /\ config.borrowFrequency = "monthly" /\ Len(steps) >= 3)
             => steps[3].loanBalance = 2 * config.monthlySpendingUsd
        /\ Done =>
             /\ summary.totalInterestPaid = SumInterestPaid(steps, Len(steps))
             /\ (config.interestAprPercent > 0
                 /\ \E k \in 2..Len(steps) : steps[k].loanBalance > 0)
                  => summary.totalInterestPaid > 0

C6_Witness ==
    /\ Done
    /\ config.interestMode = "pay_monthly"
    /\ config.interestAprPercent > 0
    /\ RecurringMode
    /\ config.borrowFrequency = "monthly"
    /\ Len(steps) >= 3
    /\ steps[3].loanBalance > 0
    /\ summary.totalInterestPaid > 0

\* ------------------------------------------------------------------ C7
\* C7: with yearly cadence in recurring-borrow mode borrowedThisMonth is
\* non-zero only at months 12, 24, 36, ... and is 12 x monthlySpendingUsd
\* there; loanBalance and LTV are 0 for months 0..11.
C7_YearlyCadence ==
    (RecurringMode /\ config.borrowFrequency = "yearly") =>
        \A k \in 1..Len(steps) :
            LET m == steps[k].month IN
            /\ steps[k].borrowedThisMonth # 0 => (m > 0 /\ m % 12 = 0)
            /\ (m > 0 /\ m % 12 = 0)
                 => steps[k].borrowedThisMonth = 12 * config.monthlySpendingUsd
            /\ m <= 11 => (steps[k].loanBalance = 0 /\ steps[k].ltv.num = 0)

C7_Witness ==
    /\ RecurringMode
    /\ config.borrowFrequency = "yearly"
    /\ config.monthlySpendingUsd > 0
    /\ Len(steps) >= 25
    /\ steps[13].borrowedThisMonth = 12 * config.monthlySpendingUsd
    /\ steps[14].borrowedThisMonth = 0
    /\ steps[25].borrowedThisMonth = 12 * config.monthlySpendingUsd

\* ------------------------------------------------------------------ C8
\* C8: in starting-LTV mode the initial loanBalance and totalBorrowed are
\* btcHeld x price(month 0) x startingLtvPercent/100 and no step borrows,
\* whatever borrowFrequency is: the balance moves by interest alone, so the
\* steps do not depend on the cadence.
C8_StartingLtvMode ==
    (StartingLtvMode /\ pc # "start") =>
        LET initial100 == config.btcHeld * pricePath[1].price * config.startingLtvPercent IN
        /\ totalBorrowed * 100 = initial100
        /\ Len(steps) >= 1 => steps[1].loanBalance * 100 = initial100
        /\ \A k \in 1..Len(steps) : steps[k].borrowedThisMonth = 0
        /\ \A k \in 2..Len(steps) :
             steps[k].loanBalance =
                steps[k - 1].loanBalance
                  * (1 + (IF config.interestMode = "capitalize"
                          THEN config.interestAprPercent \div 1200 ELSE 0))
        /\ Done => summary.totalBorrowed * 100 = initial100

C8_Witness ==
    /\ Done
    /\ StartingLtvMode
    /\ config.borrowFrequency = "yearly"
    /\ config.monthlySpendingUsd > 0
    /\ Len(steps) >= 25
    /\ steps[1].loanBalance > 0

\* ------------------------------------------------------------------ C9
\* the monthly spending in force in year yr: the latest step-up whose start
\* year is <= yr, the base spending if none applies
SpendingInYear(c, yr) ==
    LET applicable == {j \in 1..Len(c.spendingSteps) : c.spendingSteps[j].startYear <= yr} IN
    IF applicable = {} THEN c.monthlySpendingUsd
    ELSE c.spendingSteps[CHOOSE j \in applicable :
            \A j2 \in applicable :
                c.spendingSteps[j2].startYear <= c.spendingSteps[j].startYear].monthlySpendingUsd

\* C9: the amount borrowed at each borrowing event uses the spending of the
\* latest step-up whose start year is <= the current simulated year: that
\* amount under monthly cadence, 12 x that amount under yearly cadence.  The
\* year is accepted under either numbering, the step's 0-based year index or
\* the controls' 1-based "Year n".
C9_StepUpsApplied ==
    RecurringMode =>
        \A k \in 2..Len(steps) :
            LET perEvent(yr) ==
                    IF config.borrowFrequency = "monthly" THEN SpendingInYear(config, yr)
                    ELSE 12 * SpendingInYear(config, yr)
                isEvent == config.borrowFrequency = "monthly" \/ steps[k].month % 12 = 0
            IN isEvent =>
                 \/ steps[k].borrowedThisMonth = perEvent(steps[k].year)
                 \/ steps[k].borrowedThisMonth = perEvent(steps[k].year + 1)

\* ----------------------------------------------------------------- C10
\* C10: every step has collateralValue = btcHeld x btcPrice, netEquity =
\* collateralValue - loanBalance, and ltv = loanBalance / collateralValue
\* when collateralValue > 0, 0 otherwise; no division by zero is performed.
C10_StepArithmetic ==
    \A k \in 1..Len(steps) :
        LET s == steps[k] IN
        /\ s.collateralValue = config.btcHeld * s.btcPrice
        /\ s.netEquity = s.collateralValue - s.loanBalance
        /\ s.ltv.den > 0
        /\ s.collateralValue > 0 => s.ltv = Ratio(s.loanBalance, s.collateralValue)
        /\ s.collateralValue <= 0 => s.ltv.num = 0

\* a run with a loan against no collateral, whose LTV is 0
C10_Witness ==
    \E k \in 1..Len(steps) :
        /\ steps[k].collateralValue = 0
        /\ steps[k].loanBalance > 0
        /\ steps[k].ltv.num = 0
        /\ \E k2 \in 1..Len(steps) : steps[k2].collateralValue > 0 /\ steps[k2].loanBalance > 0

\* ----------------------------------------------------------------- C11
\* C11: the summary is derived from the finished steps: the initial* fields
\* are step 0's values; after a liquidation the four final* fields are null
\* and liquidationMonth is the last step's month; otherwise the final*
\* fields are the last step's values and liquidationMonth is null;
\* summary.isLiquidated holds iff liquidationMonth is non-null.
C11_SummaryFromSteps ==
    Done =>
        LET first == steps[1]
            last == steps[Len(steps)]
        IN /\ summary.initialCollateralValue = first.collateralValue
           /\ summary.initialLoanBalance = first.loanBalance
           /\ summary.initialLtv = first.ltv
           /\ summary.initialNetEquity = first.netEquity
           /\ IF last.isLiquidated
              THEN /\ summary.finalCollateralValue = Null
                   /\ summary.finalLoanBalance = Null
                   /\ summary.finalLtv = Null
                   /\ summary.finalNetEquity = Null
                   /\ summary.liquidationMonth = last.month
              ELSE /\ summary.finalCollateralValue = Value(last.collateralValue)
                   /\ summary.finalLoanBalance = Value(last.loanBalance)
                   /\ summary.finalLtv = Value(last.ltv)
                   /\ summary.finalNetEquity = Value(last.netEquity)
                   /\ summary.liquidationMonth = NULL
           /\ summary.isLiquidated <=> summary.liquidationMonth # NULL

\* a liquidated run of several months whose last step has a balance to hide
C11_Witness ==
    /\ Done
    /\ Len(steps) > 2
    /\ steps[Len(steps)].isLiquidated
    /\ steps[Len(steps)].loanBalance > 0
    /\ summary.finalLoanBalance = Null
    /\ summary.liquidationMonth = Len(steps) - 1

\* ----------------------------------------------------------------- C12
\* C12: the run terminates, with projectionYears x 12 + 1 steps when no
\* month liquidates and liquidationMonth + 1 steps (never more than
\* projectionYears x 12 + 1) when one does; step k has month k and year
\* floor(k / 12).
C12_StepCount ==
    /\ Len(steps) <= config.projectionYears * 12 + 1
    /\ \A k \in 1..Len(steps) :
         /\ steps[k].month = k - 1
         /\ steps[k].year = (k - 1) \div 12
    /\ Done =>
         IF summary.isLiquidated
         THEN Len(steps) = summary.liquidationMonth + 1
         ELSE Len(steps) = config.projectionYears * 12 + 1

C12_TerminatesWithStepCount == (<>Done) /\ []C12_StepCount

\* a run cut short by a liquidation in its second year
C12_Witness ==
    /\ Done
    /\ summary.isLiquidated
    /\ Len(steps) > 13
    /\ Len(steps) < config.projectionYears * 12 + 1
    /\ steps[Len(steps)].year = 1

\* ----------------------------------------------------------------- C13
InvalidConfig ==
    \/ config.borrowMonthly /\ config.startingLtvPercent # NULL
    \/ config.btcHeld < 0

\* C13: a configuration that requests both modes at once (borrowMonthly with
\* a non-null startingLtvPercent), or a negative btcHeld, makes the call fail
\* with an error: it never returns a result.
C13_InvalidConfigFailsFast == InvalidConfig => ~Done

\* ----------------------------------------------------------------- C18
\* C18: summary.totalBorrowed is the initial lump-sum loan (0 in
\* recurring-borrow mode) plus the sum of borrowedThisMonth over the steps:
\* monthlySpendingUsd x (steps - 1) with monthly cadence and
\* floor((steps - 1) / 12) x 12 x monthlySpendingUsd with yearly cadence.
C18_TotalBorrowed ==
    Done =>
        /\ summary.totalBorrowed = InitialBalance + SumBorrowed(steps, Len(steps))
        /\ (RecurringMode /\ config.borrowFrequency = "monthly")
             => summary.totalBorrowed = config.monthlySpendingUsd * (Len(steps) - 1)
        /\ (RecurringMode /\ config.borrowFrequency = "yearly")
             => summary.totalBorrowed
                  = ((Len(steps) - 1) \div 12) * 12 * config.monthlySpendingUsd

C18_Witness ==
    /\ Done
    /\ RecurringMode
    /\ config.borrowFrequency = "yearly"
    /\ config.monthlySpendingUsd > 0
    /\ Len(steps) > 13
    /\ (Len(steps) - 1) % 12 # 0
    /\ summary.totalBorrowed = 12 * config.monthlySpendingUsd


\* ----------------------------------------------------------------- C15
\* the moments at which new Date() can be read: any day from the start month
\* to the month after the last historical point
Clocks == { DateUTC(StartDate.y, StartDate.m + k, 20) : k \in 0..(HistMonths + 1) }

\* the price path that the same arguments give when the call is made at clock
pricePathAt(clock) ==
    IF Len(historicalData) > 0
    THEN generateMixedPricePath(startDate, config.projectionYears, fit,
                                config.scenario, historicalData, clock)
    ELSE generatePricePath(startDate, config.projectionYears, fit, config.scenario)

\* C15: runBBDSimulation is deterministic in its arguments: a call with the
\* same (config, fit, startDate, historicalData) made at any other moment
\* sees the same prices and projection flags in every step, also when the
\* historical list is not empty.
C15_SameArgumentsSameSteps ==
    \A clock \in Clocks :
        \A k \in 1..Len(steps) :
            /\ steps[k].btcPrice = pricePathAt(clock)[k].price
            /\ steps[k].isProjection = pricePathAt(clock)[k].isProjection

NoCollateralEver ==
    \A k \in 1..Len(pricePath) : config.btcHeld * pricePath[k].price <= 0

\* C28: a run whose collateral value is <= 0 in every month and whose
\* liquidation threshold is > 0 never liquidates, however large the balance
\* grows: it runs the full horizon, ends with summary.isLiquidated = false
\* and has non-positive net equity throughout.
C28_NoCollateralNeverLiquidates ==
    (pc # "start" /\ NoCollateralEver /\ config.liquidationLtvPercent > 0) =>
        /\ ~isLiquidated
        /\ \A k \in 1..Len(steps) :
             /\ ~steps[k].isLiquidated
             /\ steps[k].ltv.num = 0
             /\ steps[k].netEquity <= 0
        /\ Done =>
             /\ ~summary.isLiquidated
             /\ summary.liquidationMonth = NULL
             /\ Len(steps) = config.projectionYears * 12 + 1

\* a finished two-year run on a zero price with a balance in the thousands
C28_Witness ==
    /\ Done
    /\ NoCollateralEver
    /\ config.btcHeld > 0
    /\ Len(steps) = 25
    /\ steps[25].loanBalance > 1000
    /\ ~summary.isLiquidated

\* ===================================================================
\* getYearlyData applied to the steps of a finished run
\* ===================================================================
\* mutant of getYearlyData: the final step of a run that ended inside a year
\* left out
getYearlyData_noFinal(ss) ==
    LET first == IF Len(ss) > 0 THEN << ss[1] >> ELSE << >>
        yearEnds == [j \in 1..((Len(ss) - 1) \div 12) |-> ss[12 * j + 1]]
    IN  first \o yearEnds

\* lines 875-895; ss[k + 1] is steps[k]
getYearlyData(ss) ==
    LET first == IF Len(ss) > 0 THEN << ss[1] >> ELSE << >>
        \* for (i = 12; i < steps.length; i += 12)
        yearEnds == [j \in 1..((Len(ss) - 1) \div 12) |-> ss[12 * j + 1]]
        lastStep == ss[Len(ss)]
        final == IF lastStep.month % 12 # 0 /\ lastStep.month # 0
                 THEN << lastStep >> ELSE << >>
    IN  first \o yearEnds \o final

CallGetYearlyData ==
    /\ pc = "done"
    /\ result' = getYearlyData(steps)
    /\ pc' = "yearly"
    /\ UNCHANGED << inputs, data, age, pricePath, i, loanBalance, totalInterestPaid,
                    totalBorrowed, isLiquidated, liquidationMonth, steps, summary >>

YearlyNext == Next \/ CallGetYearlyData

YearlySpec == Init /\ [][YearlyNext]_vars

\* ----------------------------------------------------------------- C24
\* C24: for the steps of a run, getYearlyData returns, in strictly
\* increasing month order and without duplicates, exactly step 0, every step
\* whose month is a positive multiple of 12, and the final step when its
\* month is not a multiple of 12; the last returned element is the final
\* step of the run.
C24_YearlyData ==
    pc = "yearly" =>
        LET lastMonth == Len(steps) - 1
            expected == {0} \cup {m \in 1..lastMonth : m % 12 = 0} \cup {lastMonth}
        IN  /\ Len(result) > 0
            /\ \A j \in 1..Len(result) :
                 /\ result[j].month \in expected
                 /\ result[j] = steps[result[j].month + 1]
            /\ \A m \in expected : \E j \in 1..Len(result) : result[j].month = m
            /\ \A j \in 1..(Len(result) - 1) : result[j].month < result[j + 1].month
            /\ result[Len(result)] = steps[Len(steps)]

\* a run liquidated inside its second year: months 0, 12 and the final one
C24_Witness ==
    /\ pc = "yearly"
    /\ Len(steps) > 14
    /\ Len(steps) < 24
    /\ Len(result) = 3
    /\ result[2].month = 12
    /\ result[3].isLiquidated

\* ===================================================================
\* generatePricePath and generateMixedPricePath as functions of their
\* arguments (and of the clock that the second one reads).  Dates are kept
\* to the day; every Date the functions build is a midnight UTC.
\* ===================================================================
HistLen == 3

\* the variables of a simulation run, at rest while no run is in progress
NoRun ==
    /\ pricePath = << >>
    /\ i = 0
    /\ loanBalance = 0
    /\ totalInterestPaid = 0
    /\ totalBorrowed = 0
    /\ isLiquidated = FALSE
    /\ liquidationMonth = NULL
    /\ steps = << >>
    /\ summary = NULL


StartDateInputs == [y : {2024, 2025}, m : {0, 11}, d : {1, 15}]

\* historical points: an early and a late day in each of two months
HistoricalPoints ==
    { [date |-> [y |-> 2025, m |-> 2, d |-> 5], price |-> 10],
      [date |-> [y |-> 2025, m |-> 2, d |-> 20], price |-> 100],
      [date |-> [y |-> 2025, m |-> 8, d |-> 5], price |-> 10],
      [date |-> [y |-> 2025, m |-> 8, d |-> 20], price |-> 100] }

\* lists in any order, so that the last point of a month in the list need
\* not be its latest day
HistoricalLists == UNION { [1..n -> HistoricalPoints] : n \in 0..HistLen }

ClockInputs ==
    { [y |-> 2025, m |-> 2, d |-> 20],
      [y |-> 2025, m |-> 9, d |-> 1] }

PathInit ==
    /\ config \in [projectionYears : 0..MaxYears, scenario : {"fair"}]
    /\ fit \in PowerLawFit
    /\ startDate \in StartDateInputs
    /\ historicalData \in HistoricalLists
    /\ today \in ClockInputs
    /\ pc = "path"
    /\ NoRun
    /\ NoCall

CallGeneratePricePath ==
    /\ pc = "path"
    /\ pricePath' = generatePricePath(startDate, config.projectionYears, fit, config.scenario)
    /\ pc' = "projected"
    /\ UNCHANGED << inputs, lib, i, loanBalance, totalInterestPaid, totalBorrowed,
                    isLiquidated, liquidationMonth, steps, summary >>

CallGenerateMixedPricePath ==
    /\ pc = "path"
    /\ pricePath' = generateMixedPricePath(startDate, config.projectionYears, fit,
                                           config.scenario, historicalData, today)
    /\ pc' = "mixed"
    /\ UNCHANGED << inputs, lib, i, loanBalance, totalInterestPaid, totalBorrowed,
                    isLiquidated, liquidationMonth, steps, summary >>

PathNext == CallGeneratePricePath \/ CallGenerateMixedPricePath

PathSpec == PathInit /\ [][PathNext]_vars

\* ----------------------------------------------------------------- C16
\* b is the calendar month after a, both on the first day
NextMonth(a, b) ==
    /\ a.m \in 0..11
    /\ b.m \in 0..11
    /\ IF a.m = 11 THEN b.y = a.y + 1 /\ b.m = 0
                   ELSE b.y = a.y /\ b.m = a.m + 1

PathShape ==
    /\ Len(pricePath) = config.projectionYears * 12 + 1
    /\ \A k \in 1..Len(pricePath) :
         /\ pricePath[k].date.d = 1
         /\ pricePath[k].isProjection = TRUE
         /\ pricePath[k].price = getScenarioPrice(pricePath[k].date, fit, config.scenario)
    /\ \A k \in 1..(Len(pricePath) - 1) :
         NextMonth(pricePath[k].date, pricePath[k + 1].date)

PointsOfMonth(date) ==
    { j \in 1..Len(historicalData) :
        /\ historicalData[j].date.y = date.y
        /\ historicalData[j].date.m = date.m }

NotAfterCurrentMonth(date) ==
    \/ date.y < today.y
    \/ date.y = today.y /\ date.m <= today.m

\* C17: in generateMixedPricePath, a month that is not after the current
\* calendar month and has at least one historical point gets the price of
\* the last such point in the list and isProjection = false; every other
\* month (no historical point, or a month after the current one) gets the
\* scenario price and isProjection = true.
C17_HistoricalUpToCurrentMonth ==
    pc = "mixed" =>
        \A k \in 1..Len(pricePath) :
            LET date == pricePath[k].date
                pts == PointsOfMonth(date)
            IN  IF NotAfterCurrentMonth(date) /\ pts # {}
                THEN /\ \E j \in pts :
                          /\ \A j2 \in pts : j2 <= j
                          /\ pricePath[k].price = historicalData[j].price
                     /\ pricePath[k].isProjection = FALSE
                ELSE /\ pricePath[k].price = getScenarioPrice(date, fit, config.scenario)
                     /\ pricePath[k].isProjection = TRUE

\* March 2025 holds two points with the later day first in the list, and the
\* current month is March: March takes the last listed price; September has
\* a point but lies after the current month and takes the scenario price
C17_Witness ==
    /\ pc = "mixed"
    /\ startDate = [y |-> 2025, m |-> 0, d |-> 15]
    /\ today = [y |-> 2025, m |-> 2, d |-> 20]
    /\ fit.A = 0
    /\ Len(pricePath) = 13
    /\ pricePath[3].price = 10
    /\ pricePath[3].isProjection = FALSE
    /\ PointsOfMonth(pricePath[3].date) = {1, 2}
    /\ historicalData[1].price = 100
    /\ PointsOfMonth(pricePath[9].date) = {3}
    /\ pricePath[9].price = 0
    /\ pricePath[9].isProjection = TRUE

\* ===================================================================
\* lib/powerlaw.ts: fitPowerLaw and powerLawPrice as functions of their
\* arguments.  Numbers are exact: a finite number is a Ratio, the results of
\* Math.exp and Math.sqrt are kept as the number they were applied to, and
\* the two non-finite outcomes of floating-point arithmetic are values of
\* their own.
\* ===================================================================
MaxPoints == 3

NotANumber == [nan |-> TRUE]
Infinity == [inf |-> TRUE]
MinusInfinity == [minusInf |-> TRUE]
Finite(x) == x # NotANumber /\ x # Infinity /\ x # MinusInfinity

\* series of price points: ages 0, 1, 2, 4 days and prices -10, 0, 1, 2
PriceDataPoint == [daysSinceGenesis : {0, 1, 2, 4}, price : {-10, 0, 1, 2}]
DataInputs == UNION { [1..n -> PriceDataPoint] : n \in 0..MaxPoints }

\* Math.log on the powers of two, in units of ln 2
Log(v) == CASE v = 1 -> 0 [] v = 2 -> 1 [] v = 4 -> 2 [] v = 8 -> 3 [] v = 16 -> 4

RECURSIVE SumTo(_, _)
SumTo(f, k) == IF k = 0 THEN 0 ELSE f[k] + SumTo(f, k - 1)

\* line 12
validData(d) == SelectSeq(d, LAMBDA pt : pt.price > 0 /\ pt.daysSinceGenesis > 0)

ZeroFit == [A |-> Ratio(0, 1), B |-> Ratio(0, 1), rSquared |-> Ratio(0, 1), sigma |-> Ratio(0, 1)]

\* lines 20-54 on the valid points.  Deviations from a mean are carried
\* multiplied by n, and residuals by n x denominator, so that every
\* intermediate amount is an integer; the factors are divided out in the
\* Ratios of the result.
Regression(valid) ==
    LET n == Len(valid)
        logT == [k \in 1..n |-> Log(valid[k].daysSinceGenesis)]
        logP == [k \in 1..n |-> Log(valid[k].price)]
        sumT == SumTo(logT, n)
        sumP == SumTo(logP, n)
        devT == [k \in 1..n |-> n * logT[k] - sumT]
        devP == [k \in 1..n |-> n * logP[k] - sumP]
        numerator == SumTo([k \in 1..n |-> devT[k] * devP[k]], n)
        denominator == SumTo([k \in 1..n |-> devT[k] * devT[k]], n)
        \* n x denominator x logA
        logANum == sumP * denominator - numerator * sumT
        \* n x denominator x residual
        residuals == [k \in 1..n |->
                        n * denominator * logP[k] - logANum - n * numerator * logT[k]]
        ssRes == SumTo([k \in 1..n |-> residuals[k] * residuals[k]], n)
        ssTot == SumTo([k \in 1..n |-> devP[k] * devP[k]], n)
        sumResiduals == SumTo(residuals, n)
        devR == [k \in 1..n |-> n * residuals[k] - sumResiduals]
        varianceNum == SumTo([k \in 1..n |-> devR[k] * devR[k]], n)
    IN
    IF denominator = 0
    THEN \* B = 0 / 0, and everything computed from it
         [A |-> NotANumber, B |-> NotANumber, rSquared |-> NotANumber, sigma |-> NotANumber]
    ELSE [ B |-> Ratio(numerator, denominator),
           A |-> [exp |-> Ratio(logANum, n * denominator)],
           rSquared |-> IF ssTot = 0
                        THEN NotANumber      \* 1 - 0 / 0
                        ELSE [oneMinus |-> [ssRes |-> Ratio(ssRes, n * n * denominator * denominator),
                                            ssTot |-> Ratio(ssTot, n * n)]],
           sigma |-> [sqrt |-> [variance |-> Ratio(varianceNum, n * n * n * n * denominator * denominator),
                                over |-> n - 1]] ]

fitPowerLaw_countsAll(d) ==
    IF Len(d) < 2 THEN ZeroFit ELSE Regression(validData(d))

fitPowerLaw(d) ==
    IF Len(validData(d)) < 2 THEN ZeroFit ELSE Regression(validData(d))

\* fits handed to powerLawPrice: exponents -1, 0, 1/2, 1 and 2
FitInputs == [A : {0, 1, 10},
              B : {Ratio(-1, 1), Ratio(0, 1), Ratio(1, 2), Ratio(1, 1), Ratio(2, 1)}]
AgeInputs == {-4, -1, 0, 1, 4}

RECURSIVE IntPow(_, _)
IntPow(b, e) == IF e = 0 THEN 1 ELSE b * IntPow(b, e - 1)

\* Math.sqrt on the squares
Sqrt(v) == CASE v = 0 -> 0 [] v = 1 -> 1 [] v = 4 -> 2

\* Math.pow(base, exponent) for an integer base and a rational exponent
Pow(base, exponent) ==
    IF exponent.num = 0 THEN Ratio(1, 1)
    ELSE IF base < 0 /\ exponent.den # 1 THEN NotANumber
    ELSE IF base = 0 THEN (IF exponent.num > 0 THEN Ratio(0, 1) ELSE Infinity)
    ELSE LET root == IF exponent.den = 2 THEN Sqrt(base) ELSE base
             p == IntPow(root, IF exponent.num > 0 THEN exponent.num ELSE -exponent.num)
         IN  IF exponent.num > 0 THEN Ratio(p, 1) ELSE Ratio(1, p)

\* a * x for a finite a >= 0
Times(a, x) ==
    IF x = NotANumber THEN NotANumber
    ELSE IF x = Infinity THEN (IF a = 0 THEN NotANumber ELSE Infinity)
    ELSE Ratio(a * x.num, x.den)

\* lines 57-59
powerLawPrice(daysSinceGenesis, f) == Times(f.A, Pow(daysSinceGenesis, f.B))

\* either a series for fitPowerLaw or an age and a fit for powerLawPrice
LibInit ==
    /\ \/ /\ data \in DataInputs
          /\ age = 1
          /\ fit = [A |-> 1, B |-> Ratio(1, 1)]
       \/ /\ data = << >>
          /\ age \in AgeInputs
          /\ fit \in FitInputs
    /\ result = NULL
    /\ args = NULL
    /\ cache = NULL
    /\ requests = << >>
    /\ config = NULL
    /\ startDate = StartDate
    /\ historicalData = << >>
    /\ today = StartDate
    /\ pc = "lib"
    /\ NoRun

CallFitPowerLaw ==
    /\ pc = "lib"
    /\ result' = fitPowerLaw(data)
    /\ pc' = "fitted"
    /\ UNCHANGED << inputs, data, age, pricePath, i, loanBalance, totalInterestPaid,
                    totalBorrowed, isLiquidated, liquidationMonth, steps, summary >>

CallPowerLawPrice ==
    /\ pc = "lib"
    /\ result' = powerLawPrice(age, fit)
    /\ pc' = "priced"
    /\ UNCHANGED << inputs, data, age, pricePath, i, loanBalance, totalInterestPaid,
                    totalBorrowed, isLiquidated, liquidationMonth, steps, summary >>

LibNext == CallFitPowerLaw \/ CallPowerLawPrice

LibSpec == LibInit /\ [][LibNext]_vars

\* ----------------------------------------------------------------- C19
\* positions of the points with price > 0 and daysSinceGenesis > 0
ValidPositions ==
    { k \in 1..Len(data) : data[k].price > 0 /\ data[k].daysSinceGenesis > 0 }

\* the series with every invalid point taken out
WithoutInvalid == SelectSeq(data, LAMBDA pt : pt.price > 0 /\ pt.daysSinceGenesis > 0)

\* C19: fitPowerLaw considers only points with price > 0 and
\* daysSinceGenesis > 0; with fewer than 2 of them (the empty series
\* included) it returns the zero fit {A: 0, B: 0, rSquared: 0, sigma: 0},
\* and the invalid points never influence the fit: the series without them
\* gives the same fit.
C19_OnlyValidPointsCount ==
    pc = "fitted" =>
        /\ Cardinality(ValidPositions) < 2 => result = ZeroFit
        /\ result = fitPowerLaw(WithoutInvalid)
        /\ Cardinality(ValidPositions) >= 2 => result = Regression(WithoutInvalid)

\* two valid points of different age and price around an invalid one: a fit
\* with slope 1/2 that the invalid point did not change
C19_Witness ==
    /\ pc = "fitted"
    /\ Len(data) = 3
    /\ ValidPositions = {1, 3}
    /\ data[2].price = 0
    /\ result.B = Ratio(4, 8)
    /\ result # ZeroFit

\* ----------------------------------------------------------------- C20
IsZero(x) == IF Finite(x) THEN x.num = 0 ELSE FALSE

\* C20: powerLawPrice(age, fit) is fit.A x age^fit.B for age > 0 and is 0
\* for every age <= 0 (age 0 with exponent B <= 0 and negative ages
\* included), never an infinite or NaN value.
C20_ZeroForNonPositiveAge ==
    pc = "priced" =>
        /\ Finite(result)
        /\ age > 0 => result = Ratio(fit.A * Pow(age, fit.B).num, Pow(age, fit.B).den)
        /\ age <= 0 => IsZero(result)

\* ----------------------------------------------------------------- C27
\* C27: for every input series the four fields of the fit that fitPowerLaw
\* returns are well-defined numbers: with 2 or more valid points the
\* regression never divides by zero, also when all valid points share the
\* same daysSinceGenesis or the same price, or when exactly 2 remain.
C27_FitIsWellDefined ==
    pc = "fitted" =>
        /\ Finite(result.A)
        /\ Finite(result.B)
        /\ Finite(result.rSquared)
        /\ Finite(result.sigma)

\* ===================================================================
\* lib/halvings.ts: getHalvingIndices.  A YYYY-MM-DD string is written as
\* the number YYYYMMDD, which orders as the string does.
\* ===================================================================
MaxLabels == 4

HALVING_DATES ==
    << [dateStr |-> 20121128, label |-> "Halving 1"],
       [dateStr |-> 20160709, label |-> "Halving 2"],
       [dateStr |-> 20200511, label |-> "Halving 3"],
       [dateStr |-> 20240420, label |-> "Halving 4"] >>

LabelChoices ==
    { 20100101, 20121127, 20121128, 20121129, 20160709, 20200601, 20240420, 20250101 }

\* chart labels: dates in ascending order, repeats allowed
SortedLabels ==
    { l \in UNION { [1..n -> LabelChoices] : n \in 0..MaxLabels } :
        \A k \in 1..(Len(l) - 1) : l[k] <= l[k + 1] }

\* labels.findIndex(label => label === target): 0-based, -1 when absent
findIndexEq(labels, target) ==
    LET hits == { k \in 1..Len(labels) : labels[k] = target } IN
    IF hits = {} THEN -1 ELSE (CHOOSE k \in hits : \A k2 \in hits : k <= k2) - 1

\* labels.findIndex(label => label >= target)
findIndexGeq(labels, target) ==
    LET hits == { k \in 1..Len(labels) : labels[k] >= target } IN
    IF hits = {} THEN -1 ELSE (CHOOSE k \in hits : \A k2 \in hits : k <= k2) - 1

\* mutant of HalvingEntry: exact matches only
HalvingEntry_exactOnly(labels, halving) ==
    IF halving.dateStr < labels[1] \/ halving.dateStr > labels[Len(labels)]
    THEN << >>
    ELSE LET index == findIndexEq(labels, halving.dateStr)
         IN  IF index # -1 THEN << [index |-> index, halving |-> halving] >> ELSE << >>

\* lines 57-76: what one halving adds to the result
HalvingEntry(labels, halving) ==
    IF halving.dateStr < labels[1] \/ halving.dateStr > labels[Len(labels)]
    THEN << >>
    ELSE LET exact == findIndexEq(labels, halving.dateStr)
             index == IF exact = -1 THEN findIndexGeq(labels, halving.dateStr) ELSE exact
         IN  IF index # -1 THEN << [index |-> index, halving |-> halving] >> ELSE << >>

RECURSIVE HalvingEntries(_, _)
HalvingEntries(labels, h) ==
    IF h = 0 THEN << >>
    ELSE HalvingEntries(labels, h - 1) \o HalvingEntry(labels, HALVING_DATES[h])

\* lines 48-80
getHalvingIndices(labels) ==
    IF Len(labels) = 0 THEN << >> ELSE HalvingEntries(labels, Len(HALVING_DATES))

HalvingInit ==
    /\ args \in [labels : SortedLabels]
    /\ config = NULL
    /\ fit = NULL
    /\ startDate = StartDate
    /\ historicalData = << >>
    /\ today = StartDate
    /\ cache = NULL
    /\ requests = << >>
    /\ data = << >>
    /\ age = 0
    /\ result = NULL
    /\ pc = "halvings"
    /\ NoRun

CallGetHalvingIndices ==
    /\ pc = "halvings"
    /\ result' = getHalvingIndices(args.labels)
    /\ pc' = "indexed"
    /\ UNCHANGED << inputs, data, age, pricePath, i, loanBalance, totalInterestPaid,
                    totalBorrowed, isLiquidated, liquidationMonth, steps, summary >>

HalvingNext == CallGetHalvingIndices

HalvingSpec == HalvingInit /\ [][HalvingNext]_vars

\* ----------------------------------------------------------------- C25
\* C25: for labels sorted ascending, getHalvingIndices returns exactly one
\* entry for each halving date within [first label, last label] and none for
\* the others; the entry's index is that of an exact-match label if there is
\* one, otherwise of the first label >= the halving date; entries are in
\* halving order with non-decreasing indices; no labels, no entries.
C25_HalvingIndices ==
    pc = "indexed" =>
        LET labels == args.labels
            n == Len(labels)
            Within(h) == n > 0 /\ labels[1] <= h.dateStr /\ h.dateStr <= labels[n]
        IN  /\ n = 0 => result = << >>
            /\ \A h \in 1..Len(HALVING_DATES) :
                 Cardinality({ j \in 1..Len(result) : result[j].halving = HALVING_DATES[h] })
                   = IF Within(HALVING_DATES[h]) THEN 1 ELSE 0
            /\ \A j \in 1..Len(result) :
                 LET d == result[j].halving.dateStr
                     k == result[j].index + 1
                 IN  /\ k \in 1..n
                     /\ IF \E k2 \in 1..n : labels[k2] = d
                        THEN labels[k] = d
                        ELSE /\ labels[k] >= d
                             /\ \A k2 \in 1..(k - 1) : labels[k2] < d
            /\ \A j \in 1..(Len(result) - 1) :
                 /\ result[j].halving.dateStr < result[j + 1].halving.dateStr
                 /\ result[j].index <= result[j + 1].index

\* sampled labels: the first halving matched exactly, the second and third
\* both falling on the next later label, the fourth after the last label
C25_Witness ==
    /\ pc = "indexed"
    /\ args.labels = << 20121127, 20121128, 20200601, 20200601 >>
    /\ Len(result) = 3
    /\ result[1].index = 1
    /\ result[2].index = 2
    /\ result[3].index = 2

\* ===================================================================
\* app/api/btc-price/route.ts: getRecentData and its cache file.  Requests
\* run concurrently and interleave at their awaits (fetchFromCoinGecko,
\* saveCache).  The clock counts half hours.
\* ===================================================================
MaxRequests == 3
MaxClock == 3

\* 1000 * 60 * 60 ms, in clock units
HOUR == 2

\* what CoinGecko can answer: an error, no prices, or a list of prices
FetchError == [error |-> TRUE]
Fetched(prices) == [prices |-> prices]
FetchOutcomes == { FetchError, Fetched(<< >>), Fetched(<< 20 >>) }

\* loadCache: the parsed file, or null when it cannot be read
loadCache == cache

HasPrices(cachedData) == cachedData # Null /\ Len(cachedData.prices) > 0

\* mutant of IsFresh: a cache exactly one hour old still counts as fresh
IsFresh_inclusive(cachedData, now) ==
    HasPrices(cachedData) /\ now - cachedData.lastUpdated <= HOUR

\* lines 190-193: cachedData && prices.length > 0 && hoursSinceUpdate < 1
IsFresh(cachedData, now) ==
    HasPrices(cachedData) /\ now - cachedData.lastUpdated < HOUR

\* lines 215-222: what is returned when nothing fresh was fetched
StaleOrEmpty(cachedData) ==
    IF HasPrices(cachedData) THEN cachedData.prices ELSE << >>

CacheInit ==
    /\ cache \in { Null, [lastUpdated |-> 0, prices |-> << 10 >>] }
    /\ today = 0
    /\ requests = << >>
    /\ args = NULL
    /\ config = NULL
    /\ fit = NULL
    /\ startDate = StartDate
    /\ historicalData = << >>
    /\ data = << >>
    /\ age = 0
    /\ result = NULL
    /\ pc = "route"
    /\ NoRun

RouteUnchanged ==
    UNCHANGED << config, fit, startDate, historicalData, args, data, age, result, pc,
                 pricePath, i, loanBalance, totalInterestPaid, totalBorrowed,
                 isLiquidated, liquidationMonth, steps, summary >>

\* the clock moves on
Tick ==
    /\ pc = "route"
    /\ today < MaxClock
    /\ today' = today + 1
    /\ UNCHANGED << cache, requests >>
    /\ RouteUnchanged

\* lines 183-203: a request arrives and loads the cache; a fresh one is
\* returned, otherwise the fetch starts.  (Nothing is read or written
\* between the arrival and the load, so the two are one step.)
StartRequest ==
    /\ pc = "route"
    /\ Len(requests) < MaxRequests
    /\ LET cachedData == loadCache
           now == today
       IN  requests' = Append(requests,
              IF IsFresh(cachedData, now)
              THEN [ pc |-> "done", cachedData |-> cachedData, now |-> now,
                     fetched |-> FALSE, freshData |-> Null, result |-> cachedData.prices ]
              ELSE [ pc |-> "fetching", cachedData |-> cachedData, now |-> now,
                     fetched |-> TRUE, freshData |-> Null, result |-> << >> ])
    /\ UNCHANGED << cache, today >>
    /\ RouteUnchanged

\* lines 203-222: the fetch answers; prices go on to be saved, an error or an
\* empty answer falls back to the cache that was loaded
FetchResolves(r) ==
    /\ pc = "route"
    /\ requests[r].pc = "fetching"
    /\ \E freshData \in FetchOutcomes :
         requests' = [requests EXCEPT ![r] =
            IF freshData # FetchError /\ Len(freshData.prices) > 0
            THEN [@ EXCEPT !.pc = "saving", !.freshData = freshData]
            ELSE [@ EXCEPT !.pc = "done", !.freshData = freshData,
                           !.result = StaleOrEmpty(requests[r].cachedData)]]
    /\ UNCHANGED << cache, today >>
    /\ RouteUnchanged

\* lines 207-209 and saveCache: the file is written, unless the write fails,
\* and the fetched prices are returned
SaveCache(r) ==
    /\ pc = "route"
    /\ requests[r].pc = "saving"
    /\ \E written \in BOOLEAN :
         cache' = IF written
                  THEN [lastUpdated |-> requests[r].now, prices |-> requests[r].freshData.prices]
                  ELSE cache
    /\ requests' = [requests EXCEPT ![r] =
                      [@ EXCEPT !.pc = "done", !.result = requests[r].freshData.prices]]
    /\ UNCHANGED today
    /\ RouteUnchanged

CacheNext ==
    \/ Tick
    \/ StartRequest
    \/ \E r \in 1..Len(requests) : FetchResolves(r)
    \/ \E r \in 1..Len(requests) : SaveCache(r)

CacheSpec == CacheInit /\ [][CacheNext]_vars

\* ----------------------------------------------------------------- C30
GotPrices(q) ==
    q.freshData # Null /\ q.freshData # FetchError /\ Len(q.freshData.prices) > 0

\* what a request has done so far, judged against the cache it loaded
RequestAsClaimed(q) ==
    LET c == q.cachedData
        servable == c # Null /\ Len(c.prices) > 0 /\ q.now - c.lastUpdated < HOUR
    IN  /\ q.pc \in {"fetching", "saving"} => (~servable /\ q.fetched)
        /\ q.pc = "saving" => GotPrices(q)
        /\ q.pc = "done" =>
             IF servable
             THEN ~q.fetched /\ q.result = c.prices
             ELSE /\ q.fetched
                  /\ q.result = IF GotPrices(q) THEN q.freshData.prices
                                ELSE IF c # Null /\ Len(c.prices) > 0 THEN c.prices
                                ELSE << >>

\* the cache file changes only by the save of a fetch that returned prices
CacheWrittenOnlyByFetchedPrices ==
    cache' # cache =>
        \E r \in 1..Len(requests) :
            /\ requests[r].pc = "saving"
            /\ GotPrices(requests[r])
            /\ requests'[r].pc = "done"
            /\ cache' = [lastUpdated |-> requests[r].now,
                         prices |-> requests[r].freshData.prices]

\* C30: across any sequence of requests, a cache holding at least one price
\* and updated less than one hour ago is returned without any fetch;
\* otherwise a fetch is attempted, and the cache file is overwritten only by
\* a successful fetch that returned at least one price.  A failed or empty
\* fetch leaves the cache unchanged and returns the stale cached prices if
\* there are any, else an empty list; every request ends with a list.
C30_CacheProtocol ==
    /\ [](pc = "route" => \A r \in 1..Len(requests) : RequestAsClaimed(requests[r]))
    /\ [][pc = "route" => CacheWrittenOnlyByFetchedPrices]_vars

\* three requests: one refreshed the cache, one was served from it within
\* the hour, and one found it an hour old, failed to fetch and fell back
C30_Witness ==
    /\ pc = "route"
    /\ Len(requests) = 3
    /\ \E a, b, c \in 1..3 :
         /\ requests[a].pc = "done" /\ GotPrices(requests[a])
         /\ cache # Null /\ cache.prices = requests[a].freshData.prices
         /\ requests[b].pc = "done" /\ ~requests[b].fetched
         /\ requests[b].cachedData = cache
         /\ requests[c].pc = "done" /\ requests[c].fetched
         /\ requests[c].freshData = FetchError
         /\ requests[c].cachedData = cache
         /\ requests[c].now - cache.lastUpdated = HOUR
         /\ requests[c].result = cache.prices

\* ===================================================================
\* The simulator controls (src/src/components/BBDControls.tsx) acting on the
\* page's configuration state (src/src/app/bbd/page.tsx).  The page keeps
\* btcHeld beside the configuration and merges the two before each run; the
\* record below is the merged one.
\* ===================================================================

\* the result of parsing a text that holds no number
NaN == NULL

Max(a, b) == IF a >= b THEN a ELSE b
Min(a, b) == IF a <= b THEN a ELSE b

\* what the text inputs parse to: digits only, or nothing
ParsedTexts == {NaN, 50, 150}
\* what the starting-LTV number input yields
StartingLtvInputs == {-5, 20, 60, 120}
ScenarioChoices == {"fair", "minus1sigma"}
StartDateChoices == {"2025-01", "2025-06"}

getCurrentMonth == "2025-01"

DEFAULT_CONFIG ==
    [ btcHeld |-> 1,
      monthlySpendingUsd |-> 5000,
      interestAprPercent |-> 10,
      liquidationLtvPercent |-> 80,
      startingLtvPercent |-> NULL,
      borrowMonthly |-> TRUE,
      borrowFrequency |-> "monthly",
      interestMode |-> "capitalize",
      projectionYears |-> 20,
      scenario |-> "fair",
      startDate |-> getCurrentMonth ]

ControlsInit ==
    /\ config = DEFAULT_CONFIG
    /\ fit = [A |-> 0, B |-> 0, sigma |-> 0]
    /\ startDate = StartDate
    /\ historicalData = << >>
    /\ today = DateUTC(StartDate.y, StartDate.m, 20)
    /\ pc = "controls"
    /\ NoRun
    /\ NoCall

\* page.tsx handleConfigChange: setConfig(newConfig)
setConfig(newConfig) ==
    /\ pc = "controls"
    /\ config' = newConfig
    /\ UNCHANGED << fit, startDate, historicalData, today, pc, pricePath, i,
                    loanBalance, totalInterestPaid, totalBorrowed, isLiquidated,
                    liquidationMonth, steps, summary, lib, args, cache, requests >>

\* updateConfig: onConfigChange({...config, ...updates})
updateConfig(updates) ==
    setConfig([f \in DOMAIN config |->
                 IF f \in DOMAIN updates THEN updates[f] ELSE config[f]])

handleBtcHeldChange ==
    \E v \in {0, 1} : updateConfig([btcHeld |-> v])

handleMonthlySpendingBlur ==
    \E numValue \in ParsedTexts :
        updateConfig([monthlySpendingUsd |->
                        IF numValue = NaN THEN 0 ELSE Max(0, numValue)])

handleInterestAprBlur ==
    \E numValue \in ParsedTexts :
        updateConfig([interestAprPercent |->
                        IF numValue = NaN THEN 0 ELSE Max(0, numValue)])

handleLiquidationLtvBlur ==
    \E numValue \in ParsedTexts :
        updateConfig([liquidationLtvPercent |->
                        IF numValue = NaN THEN 1 ELSE Max(1, Min(100, numValue))])

handleProjectionYearsBlur ==
    \E numValue \in ParsedTexts :
        updateConfig([projectionYears |->
                        IF numValue = NaN THEN 1 ELSE Max(1, Min(30, numValue))])

SelectStartDate ==
    \E v \in StartDateChoices : updateConfig([startDate |-> v])

SelectScenario ==
    \E v \in ScenarioChoices : updateConfig([scenario |-> v])

SelectInterestMode ==
    \E v \in {"capitalize", "pay_monthly"} : updateConfig([interestMode |-> v])

\* the starting LTV that the borrow-strategy checkbox leaves behind
ToggleStartingLtv_keep20(checked) == 20
ToggleStartingLtv(checked) == IF checked THEN NULL ELSE 20

\* lines 272-280: the "borrow to fund spending" checkbox
ToggleBorrowMonthly ==
    \E checked \in BOOLEAN :
        updateConfig([borrowMonthly |-> checked,
                      startingLtvPercent |-> ToggleStartingLtv(checked)])

\* the cadence select, shown only while borrowMonthly is checked
SelectBorrowFrequency ==
    /\ config.borrowMonthly
    /\ \E v \in {"monthly", "yearly"} : updateConfig([borrowFrequency |-> v])

\* lines 307-324: the starting LTV input, shown only while borrowMonthly is
\* unchecked
EditStartingLtv ==
    /\ ~config.borrowMonthly
    /\ \E v \in StartingLtvInputs :
         updateConfig([startingLtvPercent |->
                         Max(1, Min(config.liquidationLtvPercent - 1, v))])

\* page.tsx handleReset
handleReset ==
    setConfig([DEFAULT_CONFIG EXCEPT !.startDate = getCurrentMonth])

ControlsNext ==
    \/ handleBtcHeldChange
    \/ handleMonthlySpendingBlur
    \/ handleInterestAprBlur
    \/ handleLiquidationLtvBlur
    \/ handleProjectionYearsBlur
    \/ SelectStartDate
    \/ SelectScenario
    \/ SelectInterestMode
    \/ ToggleBorrowMonthly
    \/ SelectBorrowFrequency
    \/ EditStartingLtv
    \/ handleReset

ControlsSpec == ControlsInit /\ [][ControlsNext]_vars

\* ----------------------------------------------------------------- C14
\* C14: from the default configuration and after any sequence of control
\* actions, startingLtvPercent is null if and only if borrowMonthly is true:
\* exactly one of the two borrowing modes is active.
C14_ExactlyOneMode ==
    pc = "controls" =>
        ((config.startingLtvPercent = NULL) <=> config.borrowMonthly)

\* starting-LTV mode, entered by the checkbox and then edited, with other
\* controls used as well
C14_Witness ==
    /\ pc = "controls"
    /\ ~config.borrowMonthly
    /\ config.startingLtvPercent = 49
    /\ config.liquidationLtvPercent = 50
    /\ config.borrowFrequency = "yearly"
    /\ config.scenario = "minus1sigma"

\* ----------------------------------------------------------------- C29
\* C29: after any sequence of control actions, whenever starting-LTV mode is
\* active the configured startingLtvPercent is strictly below
\* liquidationLtvPercent, so that a run launched from the controls is not
\* liquidated at month 0 by its own starting loan.
C29_StartingLtvBelowLiquidation ==
    (pc = "controls" /\ ~config.borrowMonthly /\ config.startingLtvPercent # NULL) =>
        config.startingLtvPercent < config.liquidationLtvPercent

\* ===================================================================
\* lib/powerlaw.ts: calculateDeviation and calculateSigmaDeviation as
\* functions of their arguments.  A price is an integer or, where it is the
\* outcome of powerLawPrice, a Ratio, NotANumber, Infinity or MinusInfinity;
\* logarithms and sigma are in units of ln 2.
\* ===================================================================
\* x === 0, x <= 0 and x > 0 on a number that may be non-finite
EqZero(x) == IF Finite(x) THEN x.num = 0 ELSE FALSE
LeqZero(x) == IF Finite(x) THEN x.num <= 0 ELSE x = MinusInfinity
GtZero(x) == IF Finite(x) THEN x.num > 0 ELSE x = Infinity

\* Math.log
LogNumber(x) ==
    IF x = NotANumber \/ x = MinusInfinity THEN NotANumber
    ELSE IF x = Infinity THEN Infinity
    ELSE IF x.num < 0 THEN NotANumber
    ELSE IF x.num = 0 THEN MinusInfinity
    ELSE Ratio(Log(x.num) - Log(x.den), 1)

\* a - b
Minus(a, b) ==
    IF a = NotANumber \/ b = NotANumber THEN NotANumber
    ELSE IF a = Infinity THEN (IF b = Infinity THEN NotANumber ELSE Infinity)
    ELSE IF a = MinusInfinity THEN (IF b = MinusInfinity THEN NotANumber ELSE MinusInfinity)
    ELSE IF b = Infinity THEN MinusInfinity
    ELSE IF b = MinusInfinity THEN Infinity
    ELSE Ratio(a.num * b.den - b.num * a.den, a.den * b.den)

\* a / b for a finite b # 0
DividedBy(a, b) ==
    IF a = NotANumber THEN NotANumber
    ELSE IF ~Finite(a) THEN (IF (a = Infinity) = (b.num > 0) THEN Infinity ELSE MinusInfinity)
    ELSE IF b.num > 0 THEN Ratio(a.num * b.den, a.den * b.num)
    ELSE Ratio(-(a.num * b.den), -(a.den * b.num))

\* lines 61-64
calculateDeviation(actualPrice, fittedPrice) ==
    IF EqZero(fittedPrice) THEN Ratio(0, 1)
    ELSE IF ~Finite(fittedPrice) THEN NotANumber      \* (x -/+ Infinity) / Infinity
    ELSE LET q == DividedBy(Minus(Ratio(actualPrice, 1), fittedPrice), fittedPrice)
         IN  Ratio(q.num * 100, q.den)

calculateSigmaDeviation_negativeOnly(actualPrice, fittedPrice, sigma) ==
    IF (LeqZero(fittedPrice) /\ ~EqZero(fittedPrice)) \/ sigma = 0 THEN Ratio(0, 1)
    ELSE DividedBy(Minus(LogNumber(Ratio(actualPrice, 1)), LogNumber(fittedPrice)),
                   Ratio(sigma, 1))

\* lines 66-71
calculateSigmaDeviation(actualPrice, fittedPrice, sigma) ==
    IF LeqZero(fittedPrice) \/ sigma = 0 THEN Ratio(0, 1)
    ELSE DividedBy(Minus(LogNumber(Ratio(actualPrice, 1)), LogNumber(fittedPrice)),
                   Ratio(sigma, 1))

ActualPrices == {-2, 0, 1, 2, 4}
FittedPrices == { Ratio(-2, 1), Ratio(0, 1), Ratio(1, 2), Ratio(1, 1), Ratio(4, 1),
                  NotANumber, Infinity }
Sigmas == {0, 1, 2}

\* the arguments of one call
DeviationInit ==
    /\ args \in [actualPrice : ActualPrices, fittedPrice : FittedPrices, sigma : Sigmas]
    /\ data = << >>
    /\ age = 0
    /\ result = NULL
    /\ cache = NULL
    /\ requests = << >>
    /\ config = NULL
    /\ fit = [A |-> 1, B |-> Ratio(1, 1)]
    /\ startDate = StartDate
    /\ historicalData = << >>
    /\ today = StartDate
    /\ pc = "deviations"
    /\ NoRun

CallCalculateDeviation ==
    /\ pc = "deviations"
    /\ result' = calculateDeviation(args.actualPrice, args.fittedPrice)
    /\ pc' = "deviation"
    /\ UNCHANGED << inputs, data, age, pricePath, i, loanBalance, totalInterestPaid,
                    totalBorrowed, isLiquidated, liquidationMonth, steps, summary >>

CallCalculateSigmaDeviation ==
    /\ pc = "deviations"
    /\ result' = calculateSigmaDeviation(args.actualPrice, args.fittedPrice, args.sigma)
    /\ pc' = "sigmaDeviation"
    /\ UNCHANGED << inputs, data, age, pricePath, i, loanBalance, totalInterestPaid,
                    totalBorrowed, isLiquidated, liquidationMonth, steps, summary >>

DeviationNext == CallCalculateDeviation \/ CallCalculateSigmaDeviation

DeviationSpec == DeviationInit /\ [][DeviationNext]_vars

\* ----------------------------------------------------------------- C21
\* C21: for every actual price, calculateDeviation returns 0 when the fitted
\* price is 0, and calculateSigmaDeviation returns 0 whenever the fitted
\* price is <= 0 or sigma is 0: never an infinite or NaN value.
C21_ZeroForDegenerateDenominators ==
    /\ pc = "deviation" =>
           (EqZero(args.fittedPrice) => result = Ratio(0, 1))
    /\ pc = "sigmaDeviation" =>
           ((LeqZero(args.fittedPrice) \/ args.sigma = 0) => result = Ratio(0, 1))

\* a positive actual price against a fitted price of exactly 0, with sigma > 0
C21_Witness ==
    /\ pc = "sigmaDeviation"
    /\ args.actualPrice = 2
    /\ args.fittedPrice = Ratio(0, 1)
    /\ args.sigma = 1
    /\ result = Ratio(0, 1)

\* ===================================================================
\* lib/powerlaw.ts: applyFitToData as a function of a series and a fit.
\* sigma is in units of ln 2, so that Math.exp of a multiple of sigma is a
\* power of two.
\* ===================================================================
\* the point of a day: ages 0, 1 and 4 days, prices 0, 1 and 2
DatedPoint(day, price) ==
    [date |-> day, timestamp |-> day * 86400000, price |-> price, daysSinceGenesis |-> day]
DatedPoints == { DatedPoint(day, price) : day \in {0, 1, 4}, price \in {0, 1, 2} }
SeriesInputs == UNION { [1..n -> DatedPoints] : n \in 0..MaxPoints }

\* fits with exponents -1, 1/2 and 2
AnnotateFits == [A : {0, 1}, B : {Ratio(-1, 1), Ratio(1, 2), Ratio(2, 1)},
                 rSquared : {Ratio(1, 1)}, sigma : Sigmas]

\* Math.exp
Exp(e) == IF e >= 0 THEN Ratio(IntPow(2, e), 1) ELSE Ratio(1, IntPow(2, -e))

\* x * r for a finite r > 0
Scaled(x, r) == IF Finite(x) THEN Ratio(x.num * r.num, x.den * r.den) ELSE x

\* lines 75-100: the fields computed for one point
Annotation(d, f) ==
    LET fittedPrice == powerLawPrice(d.daysSinceGenesis, f)
    IN  [ fittedPrice |-> fittedPrice,
          deviationPercent |-> calculateDeviation(d.price, fittedPrice),
          sigmaDeviation |-> calculateSigmaDeviation(d.price, fittedPrice, f.sigma),
          logResidual |-> IF d.price > 0 /\ GtZero(fittedPrice)
                          THEN Minus(LogNumber(Ratio(d.price, 1)), LogNumber(fittedPrice))
                          ELSE Ratio(0, 1),
          band1SigmaUpper |-> Scaled(fittedPrice, Exp(f.sigma)),
          band1SigmaLower |-> Scaled(fittedPrice, Exp(-f.sigma)),
          band2SigmaUpper |-> Scaled(fittedPrice, Exp(2 * f.sigma)),
          band2SigmaLower |-> Scaled(fittedPrice, Exp(-2 * f.sigma)) ]

\* lines 73-102; in {...d, fittedPrice, ...} the computed fields come last
applyFitToData(d, f) == [k \in 1..Len(d) |-> Annotation(d[k], f) @@ d[k]]

AnnotateInit ==
    /\ data \in SeriesInputs
    /\ fit \in AnnotateFits
    /\ age = 0
    /\ result = NULL
    /\ args = NULL
    /\ cache = NULL
    /\ requests = << >>
    /\ config = NULL
    /\ startDate = StartDate
    /\ historicalData = << >>
    /\ today = StartDate
    /\ pc = "annotate"
    /\ NoRun

CallApplyFitToData ==
    /\ pc = "annotate"
    /\ result' = applyFitToData(data, fit)
    /\ pc' = "annotated"
    /\ UNCHANGED << inputs, data, age, pricePath, i, loanBalance, totalInterestPaid,
                    totalBorrowed, isLiquidated, liquidationMonth, steps, summary >>

AnnotateNext == CallApplyFitToData

AnnotateSpec == AnnotateInit /\ [][AnnotateNext]_vars

\* ----------------------------------------------------------------- C22
\* a < b on numbers that may be non-finite
Less(a, b) ==
    IF a = NotANumber \/ b = NotANumber THEN FALSE
    ELSE IF a = Infinity \/ b = MinusInfinity THEN FALSE
    ELSE IF a = MinusInfinity \/ b = Infinity THEN TRUE
    ELSE a.num * b.den < b.num * a.den

StrictlyNested(pt) ==
    /\ Less(pt.band2SigmaLower, pt.band1SigmaLower)
    /\ Less(pt.band1SigmaLower, pt.fittedPrice)
    /\ Less(pt.fittedPrice, pt.band1SigmaUpper)
    /\ Less(pt.band1SigmaUpper, pt.band2SigmaUpper)

CarriedOver(k) ==
    /\ result[k].date = data[k].date
    /\ result[k].timestamp = data[k].timestamp
    /\ result[k].price = data[k].price
    /\ result[k].daysSinceGenesis = data[k].daysSinceGenesis

\* C22: for any fit with sigma > 0, every point produced by applyFitToData
\* whose fittedPrice > 0 has strictly nested bands, band2SigmaLower <
\* band1SigmaLower < fittedPrice < band1SigmaUpper < band2SigmaUpper; the
\* fields date, timestamp, price and daysSinceGenesis are carried over
\* unchanged, and the output has one point per input point in the same order.
C22_NestedBands ==
    pc = "annotated" =>
        /\ Len(result) = Len(data)
        /\ \A k \in 1..Len(data) :
              /\ CarriedOver(k)
              /\ (fit.sigma > 0 /\ GtZero(result[k].fittedPrice)) => StrictlyNested(result[k])

\* ===================================================================
\* lib/powerlaw.ts: calculateRollingVolatility as a function of a series of
\* fitted points and a window size.  Of a fitted point the function reads
\* the date and the log residual; the residuals are integers, and the
\* standard deviation is kept as the square root of an exact variance.
\* ===================================================================
MaxWindow == 3

Residuals == {-1, 0, 2}
\* fitted points on consecutive days
ResidualSeries ==
    UNION { { [k \in 1..n |-> [date |-> k, logResidual |-> rs[k]]] : rs \in [1..n -> Residuals] }
            : n \in 0..MaxPoints }
WindowSizes == -1..MaxWindow

\* data.slice(start, end)
Slice(d, start, end) == SubSeq(d, Max(0, start) + 1, Min(end, Len(d)))

\* lines 129-133: sample standard deviation, the deviations from the mean
\* carried multiplied by n
SampleStdDev(residuals) ==
    LET n == Len(residuals)
        sum == SumTo(residuals, n)
        dev == [j \in 1..n |-> n * residuals[j] - sum]
    IN  [sqrt |-> Ratio(SumTo([j \in 1..n |-> dev[j] * dev[j]], n), n * n * (n - 1))]

\* lines 122-139 for the index idx (from 0)
VolatilityAt(d, windowSize, idx) ==
    LET startIdx == Max(0, idx - windowSize + 1)
        windowData == Slice(d, startIdx, idx + 1)
    IN  [ date |-> d[idx + 1].date,
          rollingStdDev |->
              IF Len(windowData) >= 2
              THEN Value(SampleStdDev([j \in 1..Len(windowData) |-> windowData[j].logResidual]))
              ELSE Null ]

calculateRollingVolatility_fromStart(d, windowSize) ==
    [k \in 1..Len(d) |-> VolatilityAt(d, Len(d), k - 1)]

\* lines 114-143
calculateRollingVolatility(d, windowSize) ==
    [k \in 1..Len(d) |-> VolatilityAt(d, windowSize, k - 1)]

VolatilityInit ==
    /\ data \in ResidualSeries
    /\ args \in [windowSize : WindowSizes]
    /\ age = 0
    /\ result = NULL
    /\ cache = NULL
    /\ requests = << >>
    /\ config = NULL
    /\ fit = [A |-> 1, B |-> Ratio(1, 1)]
    /\ startDate = StartDate
    /\ historicalData = << >>
    /\ today = StartDate
    /\ pc = "series"
    /\ NoRun

CallCalculateRollingVolatility ==
    /\ pc = "series"
    /\ result' = calculateRollingVolatility(data, args.windowSize)
    /\ pc' = "volatility"
    /\ UNCHANGED << inputs, data, age, pricePath, i, loanBalance, totalInterestPaid,
                    totalBorrowed, isLiquidated, liquidationMonth, steps, summary >>

VolatilityNext == CallCalculateRollingVolatility

VolatilitySpec == VolatilityInit /\ [][VolatilityNext]_vars

\* ----------------------------------------------------------------- C23
\* positions (from 1) of the points at indices max(0, i - W + 1) .. i, for
\* the point at position k = i + 1
WindowPositions(k) ==
    { j \in 1..Len(data) : j >= k - args.windowSize + 1 /\ j <= k }

RECURSIVE SumOver(_, _)
SumOver(S, f) ==
    IF S = {} THEN 0
    ELSE LET x == CHOOSE y \in S : TRUE IN f[x] + SumOver(S \ {x}, f)

\* n^2 (n - 1) times the sample variance of the residuals at the positions S
ScaledVarianceOver(S) ==
    LET n == Cardinality(S)
        sum == SumOver(S, [j \in S |-> data[j].logResidual])
    IN  SumOver(S, [j \in S |-> (n * data[j].logResidual - sum) * (n * data[j].logResidual - sum)])

AllEqualOver(S) == \A a, b \in S : data[a].logResidual = data[b].logResidual

\* C23: calculateRollingVolatility(data, W) returns one point per input point
\* with the same date; the value at index i is the sample standard deviation
\* of the log residuals at indices max(0, i - W + 1) .. i; it is null if and
\* only if that window holds fewer than 2 points (always at index 0, and
\* everywhere when W <= 1), and it is 0 wherever the window's residuals are
\* all equal.
C23_RollingWindow ==
    pc = "volatility" =>
        /\ Len(result) = Len(data)
        /\ \A k \in 1..Len(data) :
              LET S == WindowPositions(k)
                  n == Cardinality(S)
              IN  /\ result[k].date = data[k].date
                  /\ (result[k].rollingStdDev = Null) <=> (n < 2)
                  /\ (k = 1 \/ args.windowSize <= 1) => result[k].rollingStdDev = Null
                  /\ n >= 2 =>
                        /\ result[k].rollingStdDev =
                               Value([sqrt |-> Ratio(ScaledVarianceOver(S), n * n * (n - 1))])
                        /\ AllEqualOver(S) <=> result[k].rollingStdDev.value.sqrt.num = 0

\* a window of 2 over three points: the last value leaves the first point
\* out, and is 0 because the two points it covers are equal
C23_Witness ==
    /\ pc = "volatility"
    /\ args.windowSize = 2
    /\ Len(data) = 3
    /\ data[1].logResidual = 2
    /\ data[2].logResidual = -1
    /\ data[3].logResidual = -1
    /\ result[1].rollingStdDev = Null
    /\ result[2].rollingStdDev = Value([sqrt |-> Ratio(18, 4)])
    /\ result[3].rollingStdDev = Value([sqrt |-> Ratio(0, 4)])

====
